---- MODULE Spec2Model ----
(***************************************************************************)
(* Model of verify_cycle.py: the Pump Pot reward recalculation.            *)
(*                                                                         *)
(* Wallet addresses are strings, modelled as sequences of character codes  *)
(* so that Python's lexicographic string order and string truthiness can   *)
(* be computed.  Amounts, volumes and weights are floats in the source;    *)
(* the model draws them from small sets of integers chosen so that every   *)
(* product the code forms (0.25 * start_balance) is again an integer, and  *)
(* keeps a quotient (win_chance_percent, the draw r) as a fraction.        *)
(***************************************************************************)
EXTENDS Integers, Sequences, FiniteSets, TLC

VARIABLES
    token_holders,              \* per invocation: list of holder dicts
    cycle_stats_snapshot,       \* per invocation: dict wallet -> stat dict
    initial_balances_snapshot,  \* per invocation: dict wallet -> start balance
    verification_seed,          \* per invocation: seed string
    rules,                      \* per invocation: dict of thresholds
    rng,                        \* state of the module-level generator of `random`
    pc,                         \* per invocation: position in the function
    final_balances,             \* per invocation: local of line 57
    universally_eligible_wallets, \* per invocation: local of line 58
    participants,               \* per invocation: category -> sorted list
    winner_wallet,              \* per invocation: category -> wallet or None
    results,                    \* per invocation: the returned dict
    draws,                      \* history: the values taken from the generator
    seedings,                   \* history: per invocation, calls of random.seed
    run,                        \* per invocation: 1 = first call, 2 = repeated call
    first_outcome               \* per invocation: outcome of the first call

vars == <<token_holders, cycle_stats_snapshot, initial_balances_snapshot,
          verification_seed, rules, rng, pc, final_balances,
          universally_eligible_wallets, participants, winner_wallet, results,
          draws, seedings, run, first_outcome>>

inputs == <<token_holders, cycle_stats_snapshot, initial_balances_snapshot,
            verification_seed, rules>>

-----------------------------------------------------------------------------
(* Bounds of the explored inputs *)

MaxHolders == 2

MaxStats == 2

-----------------------------------------------------------------------------
(* Values *)

\* The sentinel key "_start_signature", character by character.
START_SIGNATURE ==
    <<95, 115, 116, 97, 114, 116, 95, 115, 105, 103, 110, 97, 116, 117, 114, 101>>

\* The empty string, and the one-letter addresses "A" and "B".
EmptyAddress == << >>

AddressA == <<65>>

AddressB == <<66>>

\* Python's None in a place that otherwise holds a string; no string has a
\* negative character code.
None == <<-1>>

\* The value stored under the sentinel key: a signature string, not a number.
SignatureValue == -1

Categories == {"power_buyer", "volume_king", "active_holder", "lottery"}

WeightedCategories == {"power_buyer", "volume_king", "active_holder"}

\* d[k] raises KeyError exactly when k is no key of the dict d.
Has(d, k) == k \in DOMAIN d

\* Truthiness of a wallet value in `if winner_wallet:`: None and "" are false.
Truthy(w) == w # None /\ Len(w) > 0

\* Python's < on strings: code points compared left to right, a proper
\* prefix first.
RECURSIVE StrLess(_, _)
StrLess(a, b) ==
    IF b = << >> THEN FALSE
    ELSE IF a = << >> THEN TRUE
    ELSE IF Head(a) < Head(b) THEN TRUE
    ELSE IF Head(a) > Head(b) THEN FALSE
    ELSE StrLess(Tail(a), Tail(b))

\* All the orders in which a dict's keys or a set's members can be iterated.
Orders(S) ==
    {f \in [1 .. Cardinality(S) -> S] :
        \A i, j \in 1 .. Cardinality(S) : i # j => f[i] # f[j]}

\* One of them, for a computation that has to name one.
SomeOrder(S) == CHOOSE f \in Orders(S) : TRUE

-----------------------------------------------------------------------------
(* sorted(..., key=lambda item: item[0]) and sorted(list_of_strings) *)

\* x placed after every element whose key is not greater: the sort is stable.
RECURSIVE InsertByKey(_, _)
InsertByKey(x, s) ==
    IF s = << >> THEN <<x>>
    ELSE IF StrLess(x[1], Head(s)[1]) THEN <<x>> \o s
    ELSE <<Head(s)>> \o InsertByKey(x, Tail(s))

RECURSIVE SortFrom(_, _, _)
SortFrom(s, k, acc) ==
    IF k > Len(s) THEN acc ELSE SortFrom(s, k + 1, InsertByKey(s[k], acc))

\* A faulty variant: the list left in the order it was built in.
sorted_not_sorting(s) == s

sorted(s) == SortFrom(s, 1, << >>)

\* sorted(list(set_of_strings)): the same sort on the bare strings.
sorted_strings(order) ==
    LET s == sorted([k \in 1 .. Len(order) |-> <<order[k]>>])
    IN  [k \in 1 .. Len(s) |-> s[k][1]]

-----------------------------------------------------------------------------
(* The generator of the random module *)

\* States of the generator: a full-period congruential generator stands for
\* the Mersenne Twister.
RngStates == 0 .. 7

RngSize == Cardinality(RngStates)

\* random.seed(str): the state is a function of the seed alone.
SeedState(seed) ==
    CASE seed = "test" -> 2
      [] seed = "alt"  -> 6
      [] OTHER         -> 0

\* random.random() returns RngOutput(g) / RngSize, in [0, 1), and steps g.
RngOutput(g) == g

RngNext(g) == (5 * g + 3) % RngSize

\* random.choice(seq): one value of the generator selects the index.
random_choice(seq, g) ==
    [item |-> seq[((RngOutput(g) * Len(seq)) \div RngSize) + 1],
     rng |-> RngNext(g), u |-> RngOutput(g)]

-----------------------------------------------------------------------------
(* _weighted_choice, lines 30-43 *)

RECURSIVE SumWeights(_)
SumWeights(ps) == IF ps = << >> THEN 0 ELSE Head(ps)[2] + SumWeights(Tail(ps))

\* A faulty variant of the comparison of line 40: > for >=.
ScanHitStrict(upto, weight, rNum) == (upto + weight) * RngSize > rNum

\* Line 40, `upto + weight >= r`, with r = rNum / RngSize.
ScanHit(upto, weight, rNum) == (upto + weight) * RngSize >= rNum

\* Lines 38-43: the linear scan, and the last participant when nothing hits.
RECURSIVE Scan(_, _, _, _)
Scan(ps, k, upto, rNum) ==
    IF k > Len(ps) THEN ps[Len(ps)][1]
    ELSE IF ScanHit(upto, ps[k][2], rNum) THEN ps[k][1]
    ELSE Scan(ps, k + 1, upto + ps[k][2], rNum)

\* A faulty variant of lines 33-36: the zero-total pick takes no value from the
\* generator and returns the first participant.
weighted_choice_first_on_zero(ps, g) ==
    IF ps = << >> THEN [item |-> None, rng |-> g, taken |-> << >>]
    ELSE IF SumWeights(ps) = 0
         THEN [item |-> ps[1][1], rng |-> g, taken |-> << >>]
         ELSE [item |-> Scan(ps, 1, 0, SumWeights(ps) * RngOutput(g)),
               rng |-> RngNext(g), taken |-> <<RngOutput(g)>>]

\* The result carries the wallet, the generator state left behind, and the
\* values taken from the generator (none or one).
weighted_choice(ps, g) ==
    IF ps = << >> THEN [item |-> None, rng |-> g, taken |-> << >>]
    ELSE LET total_weight == SumWeights(ps) IN
         IF total_weight = 0
         THEN LET c == random_choice([k \in 1 .. Len(ps) |-> ps[k][1]], g)
              IN  [item |-> c.item, rng |-> c.rng, taken |-> <<c.u>>]
         ELSE \* r = random.uniform(0, total_weight) = total_weight * random()
              [item |-> Scan(ps, 1, 0, total_weight * RngOutput(g)),
               rng |-> RngNext(g), taken |-> <<RngOutput(g)>>]

-----------------------------------------------------------------------------
(* calculate_all_rewards_from_package, stage by stage *)

\* Line 57: {h["address"]: h["amount"] for h in token_holders} raises KeyError
\* when a holder dict lacks one of the two keys.  `holders` is the list, in
\* its order.
FinalBalancesRaises(holders) ==
    \E k \in 1 .. Len(holders) :
        ~Has(holders[k], "address") \/ ~Has(holders[k], "amount")

\* Line 57: a later entry of the same address replaces an earlier one.
FinalBalances(holders) ==
    LET LastIndex(w) ==
            CHOOSE k \in 1 .. Len(holders) :
                /\ holders[k].address = w
                /\ \A j \in (k + 1) .. Len(holders) : holders[j].address # w
    IN  [w \in {holders[k].address : k \in 1 .. Len(holders)} |->
            holders[LastIndex(w)].amount]

\* Lines 58-61: rules['min_eligible_holding_amount'] is read for every key
\* other than the sentinel, `and` skipping it for the sentinel.
EligibleRaises(balances, rls) ==
    /\ ~Has(rls, "min_eligible_holding_amount")
    /\ \E w \in DOMAIN balances : w # START_SIGNATURE

\* A faulty variant of line 60: the sentinel not excluded.
UniversallyEligibleWithSentinel(balances, rls) ==
    {w \in DOMAIN balances :
        /\ Has(rls, "min_eligible_holding_amount")
        /\ balances[w] >= rls.min_eligible_holding_amount}

\* Lines 58-61.
UniversallyEligible(balances, rls) ==
    {w \in DOMAIN balances :
        w # START_SIGNATURE /\ balances[w] >= rls.min_eligible_holding_amount}

\* What a stage yields when a subscript or an operand raises.
Raised == [raised |-> TRUE, list |-> << >>]

Built(ps) == [raised |-> FALSE, list |-> ps]

\* dict.get(key, 0.0)
Get(d, k) == IF Has(d, k) THEN d[k] ELSE 0

\* A faulty variant of line 65: s["largest_buy"] read before the membership test,
\* so that the stat dict of any wallet can raise.
PowerBuyerParticipantsEager(order, stats, eligible) ==
    IF \E w \in DOMAIN stats : ~Has(stats[w], "largest_buy") THEN Raised
    ELSE LET kept == SelectSeq(order,
                         LAMBDA w : w \in eligible /\ stats[w].largest_buy > 0)
         IN  Built([k \in 1 .. Len(kept) |-> <<kept[k], stats[kept[k]].largest_buy>>])

\* Line 65, for the iteration order `order` of cycle_stats_snapshot:
\* s["largest_buy"] is read, and can raise KeyError, only for an eligible
\* wallet.
PowerBuyerParticipants(order, stats, eligible) ==
    IF \E w \in DOMAIN stats : w \in eligible /\ ~Has(stats[w], "largest_buy")
    THEN Raised
    ELSE LET kept == SelectSeq(order,
                         LAMBDA w : w \in eligible /\ stats[w].largest_buy > 0)
         IN  Built([k \in 1 .. Len(kept) |-> <<kept[k], stats[kept[k]].largest_buy>>])

\* A faulty variant of line 72: s.get("total_volume", 0) and
\* rules.get('min_trade_volume', 0) in place of the subscripts.
VolumeKingParticipantsWithDefaults(order, stats, eligible, rls) ==
    LET kept == SelectSeq(order,
                    LAMBDA w : /\ w \in eligible
                               /\ Get(stats[w], "total_volume")
                                      >= Get(rls, "min_trade_volume"))
    IN  Built([k \in 1 .. Len(kept) |->
                  <<kept[k], Get(stats[kept[k]], "total_volume")>>])

\* Line 72: s["total_volume"], then rules['min_trade_volume'], are read, and
\* can raise KeyError, only for an eligible wallet.
VolumeKingParticipants(order, stats, eligible, rls) ==
    IF \E w \in DOMAIN stats :
          /\ w \in eligible
          /\ ~Has(stats[w], "total_volume") \/ ~Has(rls, "min_trade_volume")
    THEN Raised
    ELSE LET kept == SelectSeq(order,
                         LAMBDA w : /\ w \in eligible
                                    /\ stats[w].total_volume >= rls.min_trade_volume)
         IN  Built([k \in 1 .. Len(kept) |->
                       <<kept[k], stats[kept[k]].total_volume>>])

\* Line 84: (1.0 * net_change) + (0.25 * start_balance); every start balance
\* of the model is a multiple of 4.
ActiveHolderWeight(final_balance, start_balance) ==
    (final_balance - start_balance) + (start_balance \div 4)

\* Lines 78-85, for the iteration order `order` of the eligible set; line 82
\* raises TypeError for a float minus the signature string.
ActiveHolderParticipants(order, balances, initial) ==
    IF \E k \in 1 .. Len(order) : Get(initial, order[k]) = SignatureValue
    THEN Raised
    ELSE LET kept == SelectSeq(order,
                         LAMBDA w :
                             /\ Get(balances, w) - Get(initial, w) >= 0
                             /\ ActiveHolderWeight(Get(balances, w),
                                                   Get(initial, w)) > 0)
         IN  Built([k \in 1 .. Len(kept) |->
                       <<kept[k], ActiveHolderWeight(Get(balances, kept[k]),
                                                     Get(initial, kept[k]))>>])

\* Line 90.
LotteryParticipants(order) == sorted_strings(order)

\* Line 91: random.choice(lottery_participants) if lottery_participants else None
LotteryChoice(ps, g) ==
    IF ps = << >> THEN [item |-> None, rng |-> g, taken |-> << >>]
    ELSE LET c == random_choice(ps, g)
         IN  [item |-> c.item, rng |-> c.rng, taken |-> <<c.u>>]

-----------------------------------------------------------------------------
(* Result assembly, lines 93-123 *)

\* A percentage is kept as the fraction num / den.
Hundred == [num |-> 100, den |-> 1]

\* A faulty variant of lines 98, 105, 112: the share taken of 100 units of weight
\* instead of the participants' total.
WinChanceOfFixedTotal(winner_weight, total_weight) ==
    IF total_weight > 0 THEN [num |-> winner_weight * 100, den |-> 100]
    ELSE Hundred

\* (winner_weight / total_weight) * 100 if total_weight > 0 else 100.0
WinChance(winner_weight, total_weight) ==
    IF total_weight > 0 THEN [num |-> winner_weight * 100, den |-> total_weight]
    ELSE Hundred

\* A category's entry of the returned dict: << >> is None, <<record>> a record.
NullResult == << >>

\* Lines 95, 102, 109, 118: `if ..._winner_wallet:`.
HasWinner(w) == Truthy(w)

\* Lines 97-99 read three keys of the winner's stat dict, lines 104-106 four.
AssembleRaises(stats, winner) ==
    \/ /\ HasWinner(winner["power_buyer"])
       /\ \/ ~Has(stats[winner["power_buyer"]], "largest_buy")
          \/ ~Has(stats[winner["power_buyer"]], "largest_buy_tx")
    \/ /\ HasWinner(winner["volume_king"])
       /\ \/ ~Has(stats[winner["volume_king"]], "total_volume")
          \/ ~Has(stats[winner["volume_king"]], "buys")
          \/ ~Has(stats[winner["volume_king"]], "sells")

\* Line 111: next((w for wallet, w in participants if wallet == winner), 0.0)
RECURSIVE WeightIn(_, _)
WeightIn(ps, w) ==
    IF ps = << >> THEN 0
    ELSE IF Head(ps)[1] = w THEN Head(ps)[2]
    ELSE WeightIn(Tail(ps), w)

\* Lines 94-122.
AssembleResults(stats, initial, balances, parts, winner) ==
    [c \in Categories |->
        LET w == winner[c] IN
        IF ~HasWinner(w) THEN NullResult
        ELSE CASE c = "power_buyer" ->
                    <<[wallet |-> w,
                       metric |-> stats[w].largest_buy,
                       tx_signature |-> stats[w].largest_buy_tx,
                       win_chance_percent |->
                           WinChance(stats[w].largest_buy, SumWeights(parts[c]))]>>
               [] c = "volume_king" ->
                    <<[wallet |-> w,
                       metric |-> stats[w].total_volume,
                       buys |-> stats[w].buys,
                       sells |-> stats[w].sells,
                       win_chance_percent |->
                           WinChance(stats[w].total_volume, SumWeights(parts[c]))]>>
               [] c = "active_holder" ->
                    <<[wallet |-> w,
                       metric |-> Get(balances, w),
                       final_balance |-> Get(balances, w),
                       start_balance |-> Get(initial, w),
                       win_chance_percent |->
                           WinChance(WeightIn(parts[c], w), SumWeights(parts[c]))]>>
               [] OTHER ->
                    <<[wallet |-> w,
                       metric |-> Get(balances, w),
                       win_chance_percent |->
                           IF Len(parts[c]) > 0
                           THEN [num |-> 100, den |-> Len(parts[c])]
                           ELSE Hundred]>>]

-----------------------------------------------------------------------------
(* The function as a whole, run alone on a generator no one else touches *)

NotReturned == << >>

NoWinners == [c \in Categories |-> None]

NoParticipants == [c \in Categories |-> << >>]

Failed == [pc |-> "error", results |-> NotReturned]

\* Lines 55-123 for the package pkg, every traversal in some order.
calculate_all_rewards_from_package(pkg) ==
    LET holders == SomeOrder(pkg.token_holders)
        stats == pkg.cycle_stats_snapshot
        initial == pkg.initial_balances_snapshot
        g0 == SeedState(pkg.verification_seed)
    IN
    IF FinalBalancesRaises(holders) THEN Failed
    ELSE LET balances == FinalBalances(holders) IN
    IF EligibleRaises(balances, pkg.rules) THEN Failed
    ELSE LET eligible == UniversallyEligible(balances, pkg.rules)
             pb == PowerBuyerParticipants(SomeOrder(DOMAIN stats), stats, eligible)
         IN
    IF pb.raised THEN Failed
    ELSE LET c1 == weighted_choice(sorted(pb.list), g0)
             vk == VolumeKingParticipants(SomeOrder(DOMAIN stats), stats, eligible,
                                          pkg.rules)
         IN
    IF vk.raised THEN Failed
    ELSE LET c2 == weighted_choice(sorted(vk.list), c1.rng)
             ah == ActiveHolderParticipants(SomeOrder(eligible), balances, initial)
         IN
    IF ah.raised THEN Failed
    ELSE LET c3 == weighted_choice(sorted(ah.list), c2.rng)
             lot == LotteryParticipants(SomeOrder(eligible))
             c4 == LotteryChoice(lot, c3.rng)
             parts == [c \in Categories |->
                         CASE c = "power_buyer" -> sorted(pb.list)
                           [] c = "volume_king" -> sorted(vk.list)
                           [] c = "active_holder" -> sorted(ah.list)
                           [] OTHER -> lot]
             winner == [c \in Categories |->
                         CASE c = "power_buyer" -> c1.item
                           [] c = "volume_king" -> c2.item
                           [] c = "active_holder" -> c3.item
                           [] OTHER -> c4.item]
         IN
    IF AssembleRaises(stats, winner) THEN Failed
    ELSE [pc |-> "done",
          results |-> AssembleResults(stats, initial, balances, parts, winner)]

-----------------------------------------------------------------------------
(* The packages explored *)

RealAddresses == {EmptyAddress, AddressA, AddressB}

Addresses == RealAddresses \cup {START_SIGNATURE}

Amounts == {4, 8}

Seeds == {"test", "alt"}

\* The sentinel, where it occurs as a holder or a trader, carries one fixed
\* record: no stage reads it.
HolderDicts ==
    [address : RealAddresses, amount : Amounts]
    \cup {[address |-> START_SIGNATURE, amount |-> 8]}

\* token_holders: at most MaxHolders dicts, addresses unique.  The list is
\* held as the set of its entries; its order is chosen where it is traversed.
TokenHolderLists ==
    {H \in SUBSET HolderDicts :
        /\ Cardinality(H) <= MaxHolders
        /\ \A h1, h2 \in H : h1.address = h2.address => h1 = h2}

Stat(lb, tv) ==
    [largest_buy |-> lb, total_volume |-> tv, largest_buy_tx |-> "tx",
     buys |-> tv, sells |-> 0]

StatDicts == {Stat(3, 5), Stat(1, 0), Stat(0, 2)}

\* cycle_stats_snapshot: a dict of at most MaxStats wallets.
CycleStatsSnapshots ==
    {stats \in UNION {[S -> StatDicts] :
                        S \in {T \in SUBSET Addresses : Cardinality(T) <= MaxStats}} :
        START_SIGNATURE \in DOMAIN stats => stats[START_SIGNATURE] = Stat(3, 5)}

\* initial_balances_snapshot: line 143 always adds the sentinel key; the
\* other wallets are absent or all started with the same balance.
NoStartBalances == [w \in {START_SIGNATURE} |-> SignatureValue]

InitialBalancesSnapshots ==
    {NoStartBalances}
    \cup {[w \in Addresses |-> IF w = START_SIGNATURE THEN SignatureValue ELSE b] :
            b \in {4, 12}}

RulesDicts == [min_eligible_holding_amount : {8}, min_trade_volume : {0, 4}]

PackageOf(holders, stats, initial, seed, rls) ==
    [token_holders |-> holders,
     cycle_stats_snapshot |-> stats,
     initial_balances_snapshot |-> initial,
     verification_seed |-> seed,
     rules |-> rls]

\* The dict d without its key k.
DropKey(d, k) == [x \in DOMAIN d \ {k} |-> d[x]]

\* The packages that differ from pkg by one missing required field.
OneFieldMissing(pkg) ==
    {[pkg EXCEPT !.token_holders = (@ \ {h}) \cup {DropKey(h, k)}] :
        h \in pkg.token_holders, k \in {"address", "amount"}}
    \cup {[pkg EXCEPT !.cycle_stats_snapshot[w] = DropKey(@, k)] :
            w \in DOMAIN pkg.cycle_stats_snapshot,
            k \in {"largest_buy", "total_volume"}}
    \cup {[pkg EXCEPT !.rules = DropKey(@, k)] :
            k \in {"min_eligible_holding_amount", "min_trade_volume"}}

\* The states earlier code can have left the module-level generator in.
PriorRngStates == {0, 5}

-----------------------------------------------------------------------------
(* Initial states *)

NoOutcome == [pc |-> "none", results |-> NotReturned, winners |-> NoWinners]

\* The state before invocation(s) of the packages pkgs (a function from the
\* invocations to their packages), the generator in the state g.
Start(pkgs, g) ==
    /\ token_holders = [i \in DOMAIN pkgs |-> pkgs[i].token_holders]
    /\ cycle_stats_snapshot = [i \in DOMAIN pkgs |-> pkgs[i].cycle_stats_snapshot]
    /\ initial_balances_snapshot =
           [i \in DOMAIN pkgs |-> pkgs[i].initial_balances_snapshot]
    /\ verification_seed = [i \in DOMAIN pkgs |-> pkgs[i].verification_seed]
    /\ rules = [i \in DOMAIN pkgs |-> pkgs[i].rules]
    /\ rng = g
    /\ pc = [i \in DOMAIN pkgs |-> "seed"]
    /\ final_balances = [i \in DOMAIN pkgs |-> << >>]
    /\ universally_eligible_wallets = [i \in DOMAIN pkgs |-> {}]
    /\ participants = [i \in DOMAIN pkgs |-> NoParticipants]
    /\ winner_wallet = [i \in DOMAIN pkgs |-> NoWinners]
    /\ results = [i \in DOMAIN pkgs |-> NotReturned]
    /\ draws = << >>
    /\ seedings = [i \in DOMAIN pkgs |-> 0]
    /\ run = [i \in DOMAIN pkgs |-> 1]
    /\ first_outcome = [i \in DOMAIN pkgs |-> NoOutcome]

\* One invocation of a well-formed package.
InitWellFormed ==
    \E holders \in TokenHolderLists, stats \in CycleStatsSnapshots,
       initial \in InitialBalancesSnapshots, seed \in Seeds, rls \in RulesDicts,
       g \in PriorRngStates :
        Start([i \in {1} |-> PackageOf(holders, stats, initial, seed, rls)], g)

\* One invocation of a package with a field missing.  The seed, the start
\* balances and the trade threshold are fixed here: none of them decides
\* whether a missing field is read.
InitMalformed ==
    \E holders \in TokenHolderLists, stats \in CycleStatsSnapshots,
       g \in PriorRngStates :
        \E pkg \in OneFieldMissing(
                       PackageOf(holders, stats, NoStartBalances, "test",
                                 [min_eligible_holding_amount |-> 8,
                                  min_trade_volume |-> 0])) :
            Start([i \in {1} |-> pkg], g)

Init == InitWellFormed \/ InitMalformed

-----------------------------------------------------------------------------
(* The steps of an invocation *)

\* The package invocation i was called with.
Package(i) ==
    [token_holders |-> token_holders[i],
     cycle_stats_snapshot |-> cycle_stats_snapshot[i],
     initial_balances_snapshot |-> initial_balances_snapshot[i],
     verification_seed |-> verification_seed[i],
     rules |-> rules[i]]

\* An exception leaves the function: nothing is returned.
Raise(i) ==
    /\ pc' = [pc EXCEPT ![i] = "error"]
    /\ UNCHANGED <<final_balances, universally_eligible_wallets, participants,
                   winner_wallet, results, draws>>

\* The values a pick took from the generator, as history entries.
Taken(i, c, pick) ==
    [k \in 1 .. Len(pick.taken) |-> [invocation |-> i, category |-> c, u |-> pick.taken[k]]]

\* A category's participants ps and its pick are stored; the function goes on
\* at `next`.
Drawn(i, c, ps, pick, next) ==
    /\ participants' = [participants EXCEPT ![i][c] = ps]
    /\ winner_wallet' = [winner_wallet EXCEPT ![i][c] = pick.item]
    /\ rng' = pick.rng
    /\ draws' = draws \o Taken(i, c, pick)
    /\ pc' = [pc EXCEPT ![i] = next]
    /\ UNCHANGED <<final_balances, universally_eligible_wallets, results>>

\* Lines 55-61: random.seed, final_balances, universally_eligible_wallets.
Seed(i) ==
    /\ pc[i] = "seed"
    /\ rng' = SeedState(verification_seed[i])
    /\ seedings' = [seedings EXCEPT ![i] = @ + 1]
    /\ \E holders \in Orders(token_holders[i]) :
          IF FinalBalancesRaises(holders) THEN Raise(i)
          ELSE LET balances == FinalBalances(holders) IN
               IF EligibleRaises(balances, rules[i]) THEN Raise(i)
               ELSE /\ final_balances' = [final_balances EXCEPT ![i] = balances]
                    /\ universally_eligible_wallets' =
                           [universally_eligible_wallets EXCEPT
                               ![i] = UniversallyEligible(balances, rules[i])]
                    /\ pc' = [pc EXCEPT ![i] = "power_buyer"]
                    /\ UNCHANGED <<participants, winner_wallet, results, draws>>
    /\ UNCHANGED <<inputs, run, first_outcome>>

\* Lines 64-68.
PowerBuyer(i) ==
    /\ pc[i] = "power_buyer"
    /\ \E order \in Orders(DOMAIN cycle_stats_snapshot[i]) :
          LET built == PowerBuyerParticipants(order, cycle_stats_snapshot[i],
                                              universally_eligible_wallets[i])
              power_buyer_participants == sorted(built.list)
          IN  IF built.raised THEN Raise(i) /\ UNCHANGED rng
              ELSE Drawn(i, "power_buyer", power_buyer_participants,
                         weighted_choice(power_buyer_participants, rng),
                         "volume_king")
    /\ UNCHANGED <<inputs, seedings, run, first_outcome>>

\* Lines 71-75.
VolumeKing(i) ==
    /\ pc[i] = "volume_king"
    /\ \E order \in Orders(DOMAIN cycle_stats_snapshot[i]) :
          LET built == VolumeKingParticipants(order, cycle_stats_snapshot[i],
                                              universally_eligible_wallets[i],
                                              rules[i])
              volume_king_participants == sorted(built.list)
          IN  IF built.raised THEN Raise(i) /\ UNCHANGED rng
              ELSE Drawn(i, "volume_king", volume_king_participants,
                         weighted_choice(volume_king_participants, rng),
                         "active_holder")
    /\ UNCHANGED <<inputs, seedings, run, first_outcome>>

\* Lines 78-87.
ActiveHolder(i) ==
    /\ pc[i] = "active_holder"
    /\ \E order \in Orders(universally_eligible_wallets[i]) :
          LET built == ActiveHolderParticipants(order, final_balances[i],
                                                initial_balances_snapshot[i])
              active_holder_participants == sorted(built.list)
          IN  IF built.raised THEN Raise(i) /\ UNCHANGED rng
              ELSE Drawn(i, "active_holder", active_holder_participants,
                         weighted_choice(active_holder_participants, rng),
                         "lottery")
    /\ UNCHANGED <<inputs, seedings, run, first_outcome>>

\* Lines 90-91.
Lottery(i) ==
    /\ pc[i] = "lottery"
    /\ \E order \in Orders(universally_eligible_wallets[i]) :
          LET lottery_participants == LotteryParticipants(order)
          IN  Drawn(i, "lottery", lottery_participants,
                    LotteryChoice(lottery_participants, rng), "assemble")
    /\ UNCHANGED <<inputs, seedings, run, first_outcome>>

\* Lines 93-123.
Assemble(i) ==
    /\ pc[i] = "assemble"
    /\ IF AssembleRaises(cycle_stats_snapshot[i], winner_wallet[i])
       THEN Raise(i)
       ELSE /\ results' = [results EXCEPT ![i] =
                   AssembleResults(cycle_stats_snapshot[i],
                                   initial_balances_snapshot[i], final_balances[i],
                                   participants[i], winner_wallet[i])]
            /\ pc' = [pc EXCEPT ![i] = "done"]
            /\ UNCHANGED <<final_balances, universally_eligible_wallets,
                           participants, winner_wallet, draws>>
    /\ UNCHANGED <<inputs, rng, seedings, run, first_outcome>>

\* The caller keeps what the first call gave and calls the function again on
\* the same package; the generator is in the state the first call left.
Rerun(i) ==
    /\ pc[i] \in {"done", "error"}
    /\ run[i] = 1
    /\ first_outcome' = [first_outcome EXCEPT
                            ![i] = [pc |-> pc[i], results |-> results[i],
                                    winners |-> winner_wallet[i]]]
    /\ run' = [run EXCEPT ![i] = 2]
    /\ pc' = [pc EXCEPT ![i] = "seed"]
    /\ final_balances' = [final_balances EXCEPT ![i] = << >>]
    /\ universally_eligible_wallets' = [universally_eligible_wallets EXCEPT ![i] = {}]
    /\ participants' = [participants EXCEPT ![i] = NoParticipants]
    /\ winner_wallet' = [winner_wallet EXCEPT ![i] = NoWinners]
    /\ results' = [results EXCEPT ![i] = NotReturned]
    /\ draws' = << >>
    /\ seedings' = [seedings EXCEPT ![i] = 0]
    /\ UNCHANGED <<inputs, rng>>

Next ==
    \/ \E i \in DOMAIN pc : Seed(i)
    \/ \E i \in DOMAIN pc : PowerBuyer(i)
    \/ \E i \in DOMAIN pc : VolumeKing(i)
    \/ \E i \in DOMAIN pc : ActiveHolder(i)
    \/ \E i \in DOMAIN pc : Lottery(i)
    \/ \E i \in DOMAIN pc : Assemble(i)
    \/ \E i \in DOMAIN pc : Rerun(i)

Spec == Init /\ [][Next]_vars

-----------------------------------------------------------------------------
(* Two invocations in one process, their steps interleaved *)

\* Two holders above the threshold, both traders.
ConcurrentPackages(seed) ==
    {PackageOf({[address |-> a, amount |-> 8], [address |-> b, amount |-> 8]},
               [w \in {a, b} |-> IF w = a THEN sa ELSE sb],
               NoStartBalances, seed,
               [min_eligible_holding_amount |-> 8, min_trade_volume |-> t]) :
        a \in {AddressA}, b \in {AddressB},
        sa \in {Stat(3, 5), Stat(0, 2)}, sb \in {Stat(1, 0), Stat(3, 5)},
        t \in {0, 4}}

\* The invocations 1 and 2 have different seeds; both draw from the one
\* generator of the random module.
InitConcurrent ==
    \E p1 \in ConcurrentPackages("test"), p2 \in ConcurrentPackages("alt"),
       g \in PriorRngStates :
        Start([i \in {1, 2} |-> IF i = 1 THEN p1 ELSE p2], g)

NextConcurrent ==
    \/ \E i \in DOMAIN pc : Seed(i)
    \/ \E i \in DOMAIN pc : PowerBuyer(i)
    \/ \E i \in DOMAIN pc : VolumeKing(i)
    \/ \E i \in DOMAIN pc : ActiveHolder(i)
    \/ \E i \in DOMAIN pc : Lottery(i)
    \/ \E i \in DOMAIN pc : Assemble(i)

SpecConcurrent == InitConcurrent /\ [][NextConcurrent]_vars

-----------------------------------------------------------------------------
(* What the properties speak of *)

Finished(i) == pc[i] \in {"done", "error"}

CategoryOrder == <<"power_buyer", "volume_king", "active_holder", "lottery">>

\* The wallets of a category's participant list (the lottery's list holds
\* bare strings, the others (wallet, weight) pairs).
WalletsOf(i, c) ==
    {IF c = "lottery" THEN participants[i][c][k] ELSE participants[i][c][k][1] :
        k \in 1 .. Len(participants[i][c])}

\* The values invocation i took from the generator, oldest first.
DrawsOf(i) == SelectSeq(draws, LAMBDA d : d.invocation = i)

\* The k-th value of the stream that follows random.seed(seed).
RECURSIVE StateAfter(_, _)
StateAfter(seed, k) ==
    IF k = 0 THEN SeedState(seed) ELSE RngNext(StateAfter(seed, k - 1))

StreamValue(seed, k) == RngOutput(StateAfter(seed, k - 1))

\* A holder dict of invocation i makes the wallet w universally eligible.
EligibleByPackage(i, w) ==
    /\ w # START_SIGNATURE
    /\ \E h \in token_holders[i] :
          /\ Has(h, "address") /\ Has(h, "amount")
          /\ h.address = w
          /\ Has(rules[i], "min_eligible_holding_amount")
          /\ h.amount >= rules[i].min_eligible_holding_amount

\* The package of invocation i has no universally eligible wallet: every
\* holder dict is whole, and is the sentinel's or below the threshold.
NoEligibleWallet(i) ==
    \A h \in token_holders[i] :
        /\ Has(h, "address") /\ Has(h, "amount")
        /\ \/ h.address = START_SIGNATURE
           \/ /\ Has(rules[i], "min_eligible_holding_amount")
              /\ h.amount < rules[i].min_eligible_holding_amount

AllNull(i) == \A c \in Categories : results[i][c] = NullResult

-----------------------------------------------------------------------------
(* C1 *)

\* C1 (determinism): a second invocation on the same package, started with
\* the generator in the state the first one left and traversing its inputs
\* in any order, ends as the first one did: the same error, or the same
\* winner record in each of the four categories.
Determinism ==
    \A i \in DOMAIN pc :
        (run[i] = 2 /\ Finished(i)) =>
            /\ pc[i] = first_outcome[i].pc
            /\ results[i] = first_outcome[i].results

\* A repeated invocation has returned a winner picked among two participants.
DeterminismWitness ==
    \E i \in DOMAIN pc, c \in WeightedCategories :
        /\ run[i] = 2 /\ pc[i] = "done"
        /\ Len(participants[i][c]) >= 2
        /\ results[i][c] # NullResult
        /\ results[i]["lottery"] # NullResult

-----------------------------------------------------------------------------
(* C2 *)

\* C2 (draw order): an invocation seeds the generator once, before any
\* category is processed, and never again; the values it takes from the
\* generator are, in the order Power Buyer, Volume King, Active Holder,
\* Lottery, one for each category processed so far whose participant list is
\* not empty and none for an empty one; the k-th of them is the k-th value
\* of the stream of verification_seed.
DrawOrder ==
    \A i \in DOMAIN pc :
        LET mine == DrawsOf(i)
            drawn == SelectSeq(CategoryOrder,
                               LAMBDA c : participants[i][c] # << >>)
        IN  /\ seedings[i] = IF pc[i] = "seed" THEN 0 ELSE 1
            /\ [k \in 1 .. Len(mine) |-> mine[k].category] = drawn
            /\ \A k \in 1 .. Len(mine) :
                  mine[k].u = StreamValue(verification_seed[i], k)

\* An invocation has returned after four draws, the Volume King one being
\* the uniform pick among participants of total weight 0.
DrawOrderWitness ==
    \E i \in DOMAIN pc :
        /\ pc[i] = "done"
        /\ Len(DrawsOf(i)) = 4
        /\ Len(participants[i]["volume_king"]) = 2
        /\ SumWeights(participants[i]["volume_king"]) = 0

-----------------------------------------------------------------------------
(* C3 *)

\* C3 (eligible-only participation): every participant of every category,
\* every wallet picked and every wallet of a returned record is a wallet of
\* the final-balance snapshot other than the sentinel whose final balance
\* is at least min_eligible_holding_amount.
EligibleOnly ==
    \A i \in DOMAIN pc, c \in Categories :
        /\ \A w \in WalletsOf(i, c) : EligibleByPackage(i, w)
        /\ winner_wallet[i][c] # None => EligibleByPackage(i, winner_wallet[i][c])
        /\ (pc[i] = "done" /\ results[i][c] # NullResult) =>
               EligibleByPackage(i, results[i][c][1].wallet)

\* An invocation has returned a winner from a package in which the sentinel
\* is a trader and a key of the start balances, and in which a holder below
\* the threshold has traded.
EligibleOnlyWitness ==
    \E i \in DOMAIN pc :
        /\ pc[i] = "done"
        /\ START_SIGNATURE \in DOMAIN cycle_stats_snapshot[i]
        /\ START_SIGNATURE \in DOMAIN initial_balances_snapshot[i]
        /\ results[i]["lottery"] # NullResult
        /\ \E h \in token_holders[i] :
              /\ h.amount < rules[i].min_eligible_holding_amount
              /\ h.address \in DOMAIN cycle_stats_snapshot[i]

-----------------------------------------------------------------------------
(* C4 *)

\* C4 (empty-category nullability): when the package has no universally
\* eligible wallet the invocation raises nothing, picks no wallet, and what it
\* returns is null in all four categories, whatever cycle_stats_snapshot and
\* initial_balances_snapshot hold.
EmptyCategoryNullability ==
    \A i \in DOMAIN pc :
        NoEligibleWallet(i) =>
            /\ pc[i] # "error"
            /\ winner_wallet[i] = NoWinners
            /\ pc[i] = "done" => AllNull(i)

\* An invocation has returned from a package with holders, none eligible,
\* and a trader whose stat dict lacks largest_buy.
EmptyCategoryWitness ==
    \E i \in DOMAIN pc :
        /\ pc[i] = "done"
        /\ NoEligibleWallet(i)
        /\ token_holders[i] # {}
        /\ \E w \in DOMAIN cycle_stats_snapshot[i] :
              ~Has(cycle_stats_snapshot[i][w], "largest_buy")

-----------------------------------------------------------------------------
(* C5 *)

\* C5 (weight-zero fallback): when an invocation returns, a weighted category
\* whose participant list is not empty and holds only weights 0 has a winner
\* record, of one of the participants, with win_chance_percent 100.0, and
\* took one value from the generator.
WeightZeroFallback ==
    \A i \in DOMAIN pc, c \in WeightedCategories :
        (/\ pc[i] = "done"
         /\ participants[i][c] # << >>
         /\ \A k \in 1 .. Len(participants[i][c]) : participants[i][c][k][2] = 0) =>
            /\ results[i][c] # NullResult
            /\ results[i][c][1].wallet \in WalletsOf(i, c)
            /\ results[i][c][1].win_chance_percent = Hundred
            /\ Cardinality({k \in 1 .. Len(draws) :
                              draws[k].invocation = i /\ draws[k].category = c}) = 1

-----------------------------------------------------------------------------
(* C6 *)

\* The shares of all the participants of a list, each computed as the
\* winner's is, summed: the numerators over the common denominator.
RECURSIVE ShareNumerators(_, _)
ShareNumerators(ps, total) ==
    IF ps = << >> THEN 0
    ELSE WinChance(Head(ps)[2], total).num + ShareNumerators(Tail(ps), total)

\* C6 (win-chance conservation): in a returned record of a weighted category
\* whose participants weigh more than 0 in total, win_chance_percent is the
\* weight the winner has in the participant list, over the sum of the weights
\* of that list, times 100; the same quantity over all participants sums to
\* 100.
WinChanceConservation ==
    \A i \in DOMAIN pc, c \in WeightedCategories :
        LET ps == participants[i][c]
            total == SumWeights(ps)
        IN  (pc[i] = "done" /\ results[i][c] # NullResult /\ total > 0) =>
                LET rec == results[i][c][1] IN
                /\ rec.win_chance_percent.den > 0
                /\ rec.win_chance_percent.num * total =
                       WeightIn(ps, rec.wallet) * 100 * rec.win_chance_percent.den
                /\ ShareNumerators(ps, total) =
                       100 * WinChance(WeightIn(ps, rec.wallet), total).den

\* A record has been returned for the lighter of two participants.
WinChanceWitness ==
    \E i \in DOMAIN pc, c \in WeightedCategories :
        /\ pc[i] = "done"
        /\ results[i][c] # NullResult
        /\ Len(participants[i][c]) = 2
        /\ 2 * WeightIn(participants[i][c], results[i][c][1].wallet)
               < SumWeights(participants[i][c])

-----------------------------------------------------------------------------
(* C7 *)

\* C7 (generator isolation): an invocation whose steps interleave with those
\* of an invocation of another seed returns exactly what it returns when it
\* runs alone on a generator of its own.
GeneratorIsolation ==
    \A i \in DOMAIN pc :
        pc[i] = "done" =>
            results[i] = calculate_all_rewards_from_package(Package(i)).results

-----------------------------------------------------------------------------
(* C8 *)

\* A required field is missing somewhere in the package of invocation i.
FieldMissing(i) ==
    \/ \E h \in token_holders[i] : ~Has(h, "address") \/ ~Has(h, "amount")
    \/ ~Has(rules[i], "min_eligible_holding_amount")
    \/ ~Has(rules[i], "min_trade_volume")
    \/ \E w \in DOMAIN cycle_stats_snapshot[i] :
          \/ ~Has(cycle_stats_snapshot[i][w], "largest_buy")
          \/ ~Has(cycle_stats_snapshot[i][w], "total_volume")

\* A required field is missing where the calculation reads it.
ReadFieldMissing(i) ==
    \/ \E h \in token_holders[i] : ~Has(h, "address") \/ ~Has(h, "amount")
    \/ /\ ~Has(rules[i], "min_eligible_holding_amount")
       /\ \E h \in token_holders[i] :
             Has(h, "address") /\ h.address # START_SIGNATURE
    \/ \E w \in DOMAIN cycle_stats_snapshot[i] :
          /\ EligibleByPackage(i, w)
          /\ \/ ~Has(cycle_stats_snapshot[i][w], "largest_buy")
             \/ ~Has(cycle_stats_snapshot[i][w], "total_volume")
             \/ ~Has(rules[i], "min_trade_volume")

\* C8 as claimed (malformed input is always an error): an invocation of a
\* package in which a required field is missing never returns.
MalformedAlwaysError ==
    \A i \in DOMAIN pc : FieldMissing(i) => pc[i] # "done"

\* C8 as amended: a missing field is an error where it is read.  An
\* invocation does not get past the Volume King stage, and returns nothing,
\* when a holder dict lacks address or amount, when rules lacks
\* min_eligible_holding_amount and a holder is not the sentinel, when the
\* stat dict of a universally eligible wallet lacks largest_buy or
\* total_volume, or when rules lacks min_trade_volume and a universally
\* eligible wallet has a stat dict; and an invocation raises in no other
\* case, so a field missing elsewhere goes unnoticed.
MalformedReadIsError ==
    \A i \in DOMAIN pc :
        /\ ReadFieldMissing(i) =>
              /\ pc[i] \in {"seed", "power_buyer", "volume_king", "error"}
              /\ results[i] = NotReturned
        /\ pc[i] = "error" => ReadFieldMissing(i) /\ results[i] = NotReturned

\* An invocation has raised at the Volume King stage, after the Power Buyer
\* draw, on an eligible wallet's stat dict without total_volume.
MalformedReadWitness ==
    \E i \in DOMAIN pc :
        /\ pc[i] = "error"
        /\ participants[i]["power_buyer"] # << >>
        /\ \E w \in DOMAIN cycle_stats_snapshot[i] :
              /\ EligibleByPackage(i, w)
              /\ ~Has(cycle_stats_snapshot[i][w], "total_volume")

-----------------------------------------------------------------------------
(* C9 *)

\* The weight of the participants of ps whose address is not after w.
RECURSIVE PrefixWeight(_, _)
PrefixWeight(ps, w) ==
    IF ps = << >> THEN 0
    ELSE (IF StrLess(w, Head(ps)[1]) THEN 0 ELSE Head(ps)[2])
         + PrefixWeight(Tail(ps), w)

\* The value invocation i took from the generator for category c.
DrawFor(i, c) ==
    LET k == CHOOSE k \in 1 .. Len(draws) :
                 draws[k].invocation = i /\ draws[k].category = c
    IN  draws[k].u

\* C9 (sorted linear scan): the participant list of a weighted category is
\* in strictly ascending address order; when its total weight is not 0 and r
\* is the value drawn for it (the generator's value over RngSize, times the
\* total), the wallet picked is the first in address order whose weight, added
\* to the weights of the addresses before it, is at least r, and the last in
\* address order when there is none; and a repeated invocation, whatever the
\* orders its inputs are traversed in, picks the same wallets.
SortedLinearScan ==
    \A i \in DOMAIN pc :
        /\ \A c \in WeightedCategories :
              LET ps == participants[i][c]
                  total == SumWeights(ps)
                  win == winner_wallet[i][c]
              IN  /\ \A j, k \in 1 .. Len(ps) : j < k => StrLess(ps[j][1], ps[k][1])
                  /\ (ps # << >> /\ total # 0) =>
                        LET hits == {w \in WalletsOf(i, c) :
                                        PrefixWeight(ps, w) * RngSize
                                            >= total * DrawFor(i, c)}
                        IN  /\ win \in WalletsOf(i, c)
                            /\ IF hits # {}
                               THEN /\ win \in hits
                                    /\ \A w \in hits : w = win \/ StrLess(win, w)
                               ELSE \A w \in WalletsOf(i, c) :
                                        w = win \/ StrLess(w, win)
        /\ (run[i] = 2 /\ pc[i] = "done") =>
              winner_wallet[i] = first_outcome[i].winners

\* A repeated invocation has picked, among two participants of different
\* positive weights, the one later in address order.
SortedLinearScanWitness ==
    \E i \in DOMAIN pc, c \in WeightedCategories :
        LET ps == participants[i][c] IN
        /\ run[i] = 2 /\ pc[i] = "done"
        /\ Len(ps) = 2
        /\ ps[1][2] > 0 /\ ps[2][2] > 0 /\ ps[1][2] # ps[2][2]
        /\ winner_wallet[i][c] = ps[2][1]

-----------------------------------------------------------------------------
(* C10 *)

\* C10 (null exactly when no participant): in what an invocation returns, a
\* category is null if and only if its participant list is empty, and
\* otherwise is a record whose wallet is one of the participants.
NullExactlyWhenEmpty ==
    \A i \in DOMAIN pc, c \in Categories :
        pc[i] = "done" =>
            /\ results[i][c] = NullResult <=> participants[i][c] = << >>
            /\ results[i][c] # NullResult =>
                  results[i][c][1].wallet \in WalletsOf(i, c)

====
